---- MODULE Spec2Model ----
(***************************************************************************)
(* Model of the layered-settings merge engine of PacoDw/config:            *)
(* Config.Unmarshal, applyGlobalEnvSettings, decodeConfig,                 *)
(* mapstructureDecodeHook and validateConfig (package config).             *)
(*                                                                         *)
(* The settings source (viper), the decoder (mapstructure), the validator  *)
(* (go-playground/validator) and the default applier (creasty/defaults)    *)
(* are libraries; they are modelled by what the calls made in the source   *)
(* do, with the options the source passes to them.  The README's sample    *)
(* run is the reference for that behaviour.                                *)
(***************************************************************************)
EXTENDS Naturals, Sequences, FiniteSets, TLC

VARIABLES
    file,         \* flat key -> value read by New (c.v.ReadInConfig); empty when no file
    env,          \* environment variables consulted by viper's AutomaticEnv
    target,       \* the caller's structure, *config
    pc,           \* position inside Unmarshal
    allSettings,  \* Unmarshal's local allSettings (after promotion)
    err,          \* outcome of the current call
    errText,      \* text of the validation error, "" when none
    log,          \* phases the current call has run, in order
    decoded,      \* target as the decode passes left it (before defaults.Set)
    routed,       \* the last recursive decode made by the hook: root before and after
    calls         \* number of Unmarshal calls started on this target

vars == <<file, env, target, pc, allSettings, err, errText, log, decoded, routed, calls>>

----------------------------------------------------------------------------
(* Bounds *)

\* most entries in a settings file
MaxEntries == 4
\* most Unmarshal calls made into one target
MaxCalls == 2

----------------------------------------------------------------------------
(* Settings values: a scalar or a nested mapping (map[string]interface{}) *)

S(v) == [k |-> "s", v |-> v]
M(m) == [k |-> "m", m |-> m]
IsMap(x) == x.k = "m"

EmptyMap == [q \in {} |-> S("")]

\* scalar texts a file or the environment can hold: empty, numeric, non-numeric
Vals == {"", "7", "x"}

\* viper's flattened keys ("server.host" is <<"server", "host">>), all lower case
Paths == { <<"app_name">>, <<"port">>, <<"host">>, <<"server_port">>,
           <<"appconfig">>, <<"appconfig", "port">>,
           <<"server", "host">>, <<"server", "port">>, <<"server", "server_port">>,
           <<"server", "serverconfig", "port">> }

IsPrefix(p, q) == Len(p) < Len(q) /\ SubSeq(q, 1, Len(p)) = p

\* a key holds either a scalar or a section, never both
PrefixFree(P) == \A p \in P, q \in P : ~IsPrefix(p, q)

Files == UNION { [P -> Vals] : P \in { Q \in SUBSET Paths :
                                        Cardinality(Q) <= MaxEntries /\ PrefixFree(Q) } }

\* environment variables that may be set; viper ignores an empty one
\* (AllowEmptyEnv is off), so only non-empty texts are drawn
EnvVars == { <<"port">> }
Envs == UNION { [P -> Vals \ {""}] : P \in SUBSET EnvVars }

NoFile == [p \in {} |-> ""]

----------------------------------------------------------------------------
(* Settings source: c.v.AllSettings() under AutomaticEnv *)

\* Get with the environment left out
GetFileOnly(f, e, p) == f[p]

\* v.Get(key): the environment wins over the file for a known key
Get(f, e, p) == IF p \in DOMAIN e THEN e[p] ELSE f[p]

RECURSIVE Nest(_, _, _)
Nest(f, e, prefix) ==
    LET n    == Len(prefix)
        sub  == { p \in DOMAIN f : Len(p) > n /\ SubSeq(p, 1, n) = prefix }
        keys == { p[n + 1] : p \in sub }
    IN  [ key \in keys |->
            IF Append(prefix, key) \in DOMAIN f
            THEN S(Get(f, e, Append(prefix, key)))
            ELSE M(Nest(f, e, Append(prefix, key))) ]

\* a fresh nested mapping on every call, built from the file's keys
AllSettings(f, e) == Nest(f, e, <<>>)

----------------------------------------------------------------------------
(* Global Settings Promoter *)

globalEnvs(s) == [ key \in { x \in DOMAIN s : ~IsMap(s[x]) } |-> s[key] ]

\* PromoteInto with the test on the section's own key dropped
PromoteIntoGlobalWins(section, globals) ==
    [ key \in DOMAIN section \cup DOMAIN globals |->
        IF key \in DOMAIN globals THEN globals[key] ELSE section[key] ]

PromoteInto(section, globals) ==
    [ key \in DOMAIN section \cup DOMAIN globals |->
        IF key \in DOMAIN section THEN section[key] ELSE globals[key] ]

\* applyGlobalEnvSettings descending into the sections before it injects
RECURSIVE applyGlobalEnvSettingsDeep(_)
applyGlobalEnvSettingsDeep(s) ==
    [ key \in DOMAIN s |->
        IF IsMap(s[key])
        THEN M(PromoteInto(applyGlobalEnvSettingsDeep(s[key].m), globalEnvs(s)))
        ELSE s[key] ]

applyGlobalEnvSettings(s) ==
    [ key \in DOMAIN s |->
        IF IsMap(s[key]) THEN M(PromoteInto(s[key].m, globalEnvs(s))) ELSE s[key] ]

----------------------------------------------------------------------------
(* Target structure.  The fixture follows the README's AppConfig and        *)
(* ServerConfig, cut down to the fields the layers are decided on; Host     *)
(* carries both a required rule and a default.                              *)
(*                                                                         *)
(*   type AppConfig struct {                                                *)
(*       Name   string `env:"APP_NAME" validate:"required"`                 *)
(*       Port   int    `env:"PORT" default:"8080"`                          *)
(*       Server ServerConfig                                                *)
(*   }                                                                      *)
(*   type ServerConfig struct {                                             *)
(*       Host string `env:"HOST" validate:"required" default:"localhost"`   *)
(*       Port int    `env:"SERVER_PORT"`                                    *)
(*   }                                                                      *)

DefaultPort == 8080
DefaultHost == "localhost"

\* strings.ToLower on the names the fixture uses
ToLower == [ Name |-> "name", Port |-> "port", Host |-> "host", Server |-> "server",
             AppConfig |-> "appconfig", ServerConfig |-> "serverconfig",
             APP_NAME |-> "app_name", PORT |-> "port", HOST |-> "host",
             SERVER_PORT |-> "server_port" ]

AppConfigFields ==
    << [name |-> "Name", env |-> "APP_NAME", kind |-> "str", required |-> TRUE,
        hasDefault |-> FALSE],
       [name |-> "Port", env |-> "PORT", kind |-> "int", required |-> FALSE,
        hasDefault |-> TRUE],
       [name |-> "Server", env |-> "Server", kind |-> "struct", required |-> FALSE,
        hasDefault |-> FALSE] >>

ServerConfigFields ==
    << [name |-> "Host", env |-> "HOST", kind |-> "str", required |-> TRUE,
        hasDefault |-> TRUE],
       [name |-> "Port", env |-> "SERVER_PORT", kind |-> "int", required |-> FALSE,
        hasDefault |-> FALSE] >>

ZeroServer == [Host |-> "", Port |-> 0]
ZeroTarget == [Name |-> "", Port |-> 0, Server |-> ZeroServer]

\* the settings key a field is matched with: its tag under TagName "env"
\* (decodeConfig), its name under viper's default TagName, where the fields
\* carry no tag; mapstructure matches keys case-insensitively
FieldKey(fd, tagName) == IF tagName = "env" THEN ToLower[fd.env] ELSE ToLower[fd.name]

----------------------------------------------------------------------------
(* Generic Decoder (mapstructure, WeaklyTypedInput) *)

\* strconv.ParseInt on a settings text; "" counts as 0 under weak typing
ParseInt(v) ==
    CASE v = ""  -> [ok |-> TRUE, val |-> 0]
      [] v = "7" -> [ok |-> TRUE, val |-> 7]
      [] OTHER   -> [ok |-> FALSE, val |-> 0]

\* one settings value into a scalar field of the given kind
decodeScalar(kind, item) ==
    IF IsMap(item) THEN [ok |-> FALSE, val |-> 0]
    ELSE IF kind = "str" THEN [ok |-> TRUE, val |-> item.v]
    ELSE ParseInt(item.v)

\* decodeStructFromMap for one scalar field: a key that is absent leaves the
\* field as it is; a value that cannot be coerced is an error and leaves it too
DecodeField(val, fd, data, tagName) ==
    LET key == FieldKey(fd, tagName)
    IN  IF key \notin DOMAIN data THEN [val |-> val, err |-> FALSE]
        ELSE LET r == decodeScalar(fd.kind, data[key])
             IN  IF r.ok THEN [val |-> [val EXCEPT ![fd.name] = r.val], err |-> FALSE]
                 ELSE [val |-> val, err |-> TRUE]

\* decodeStructFromMap over a structure of scalar fields: every field is
\* tried, the errors are collected
RECURSIVE DecodeScalars(_, _, _, _, _)
DecodeScalars(fields, i, data, val, tagName) ==
    IF i > Len(fields) THEN [val |-> val, err |-> FALSE]
    ELSE IF fields[i].kind = "struct"
         THEN DecodeScalars(fields, i + 1, data, val, tagName)
         ELSE LET r    == DecodeField(val, fields[i], data, tagName)
                  rest == DecodeScalars(fields, i + 1, data, r.val, tagName)
              IN  [val |-> rest.val, err |-> r.err \/ rest.err]

\* the Server field without a hook: absent key leaves it, a section is decoded
\* into it, a scalar is "expected a map"
DecodeServer(root, data, tagName) ==
    IF "server" \notin DOMAIN data THEN [val |-> root, err |-> FALSE]
    ELSE IF ~IsMap(data["server"]) THEN [val |-> root, err |-> TRUE]
    ELSE LET r == DecodeScalars(ServerConfigFields, 1, data["server"].m,
                                root.Server, tagName)
         IN  [val |-> [root EXCEPT !.Server = r.val], err |-> r.err]

\* decodeConfig: mapstructure with TagName "env" and no hook.  ZeroFields
\* empties maps and slices before they are written; a structure's fields
\* that no key feeds are left as they are
decodeConfig(settings, root) ==
    LET a == DecodeScalars(AppConfigFields, 1, settings, root, "env")
        b == DecodeServer(a.val, settings, "env")
    IN  [val |-> b.val, err |-> a.err \/ b.err]

----------------------------------------------------------------------------
(* Structure-Aware Section Matcher and viper's Unmarshal with the hook *)

NotRouted == [on |-> FALSE, before |-> ZeroTarget, after |-> ZeroTarget]

\* mapstructureDecodeHook(config) called with map data for a target of type
\* typeName.  out is "data" (data returned unchanged), "config" (the section
\* was decoded and config returned), "error" (that decode failed) or "panic"
\* (the unchecked assertion v.(map[string]interface{}) on a scalar).  The
\* recursive decode goes into config, the structure Unmarshal was called with
mapstructureDecodeHook(data, typeName, root) ==
    LET key == ToLower[typeName]
    IN  IF key \notin DOMAIN data THEN [out |-> "data", root |-> root]
        ELSE IF ~IsMap(data[key]) THEN [out |-> "panic", root |-> root]
        ELSE LET r == decodeConfig(data[key].m, root)
             IN  [out |-> IF r.err THEN "error" ELSE "config", root |-> r.val]

\* decodeStruct given a structure of another type as data: the source is
\* turned into a map keyed by its field names and decoded from there, so the
\* fields of the same name and kind are copied
RECURSIVE CopyByName(_, _, _, _, _)
CopyByName(srcFields, src, dstFields, i, dst) ==
    IF i > Len(dstFields) THEN dst
    ELSE LET fd   == dstFields[i]
             same == { j \in 1..Len(srcFields) :
                          /\ ToLower[srcFields[j].name] = ToLower[fd.name]
                          /\ srcFields[j].kind = fd.kind
                          /\ fd.kind # "struct" }
             next == IF same = {} THEN dst
                     ELSE [dst EXCEPT ![fd.name] =
                              src[srcFields[CHOOSE j \in same : TRUE].name]]
         IN  CopyByName(srcFields, src, dstFields, i + 1, next)

\* what the Server field becomes, given the hook's answer h for the section
\* and the by-name decode r of the section that is made when the hook
\* returns its data unchanged
ServerOutcome(root, h, r) ==
    CASE h.out = "panic"  -> [val |-> root, out |-> "panic", routed |-> NotRouted]
      [] h.out = "error"  ->
           [val |-> h.root, out |-> "error",
            routed |-> [on |-> TRUE, before |-> root, after |-> h.root]]
      [] h.out = "config" ->
           [val |-> [h.root EXCEPT !.Server =
                        CopyByName(AppConfigFields, h.root,
                                   ServerConfigFields, 1, h.root.Server)],
            out |-> "ok",
            routed |-> [on |-> TRUE, before |-> root, after |-> h.root]]
      [] OTHER ->
           [val |-> [root EXCEPT !.Server = r.val],
            out |-> IF r.err THEN "error" ELSE "ok", routed |-> NotRouted]

\* the Server field under the hook
HookedServer(root, data) ==
    IF "server" \notin DOMAIN data
    THEN [val |-> root, out |-> "ok", routed |-> NotRouted]
    ELSE IF ~IsMap(data["server"])
    THEN [val |-> root, out |-> "error", routed |-> NotRouted]
    ELSE ServerOutcome(root,
                       mapstructureDecodeHook(data["server"].m, "ServerConfig", root),
                       DecodeScalars(ServerConfigFields, 1, data["server"].m,
                                     root.Server, "name"))

\* the whole decode, given the hook's answer h for the whole mapping, the
\* by-name decode a of the scalar fields and the outcome b of the Server field
RootOutcome(root, h, a, b) ==
    CASE h.out = "panic"  -> [val |-> root, out |-> "panic", routed |-> NotRouted]
      [] h.out = "error"  -> [val |-> h.root, out |-> "error", routed |-> NotRouted]
      [] h.out = "config" -> [val |-> h.root, out |-> "ok", routed |-> NotRouted]
      [] OTHER ->
           [val |-> b.val,
            out |-> IF b.out = "panic" THEN "panic"
                    ELSE IF a.err \/ b.out = "error" THEN "error" ELSE "ok",
            routed |-> b.routed]

ScalarsByName(raw, root) == DecodeScalars(AppConfigFields, 1, raw, root, "name")

\* c.v.Unmarshal(config, viper.DecodeHook(hook)): viper's decoder (fields
\* matched by name, ZeroFields off) over a fresh AllSettings, the hook run
\* first on the whole mapping and then on every field
viperUnmarshal(raw, root) ==
    RootOutcome(root,
                mapstructureDecodeHook(raw, "AppConfig", root),
                ScalarsByName(raw, root),
                HookedServer(ScalarsByName(raw, root).val, raw))

----------------------------------------------------------------------------
(* Validator and Default Applier *)

IsZero(kind, v) == IF kind = "str" THEN v = "" ELSE v = 0

\* the required fields of one structure that are at their zero value, in order
RECURSIVE Violations(_, _, _)
Violations(fields, i, val) ==
    IF i > Len(fields) THEN << >>
    ELSE LET fd == fields[i]
             here == IF fd.kind # "struct" /\ fd.required /\ IsZero(fd.kind, val[fd.name])
                     THEN << [field |-> fd.name, tag |-> "required"] >>
                     ELSE << >>
         IN  here \o Violations(fields, i + 1, val)

\* ValidationErrors stopping at the first violation
ValidationErrorsFirst(root) ==
    LET all == Violations(AppConfigFields, 1, root)
                 \o Violations(ServerConfigFields, 1, root.Server)
    IN  IF Len(all) = 0 THEN all ELSE << all[1] >>

\* validate.Struct walks the fields in order and dives into Server
ValidationErrors(root) ==
    Violations(AppConfigFields, 1, root) \o Violations(ServerConfigFields, 1, root.Server)

ErrorMessage(v) == "validation error: field '" \o v.field \o "' is " \o v.tag

RECURSIVE Join(_, _)
Join(msgs, sep) ==
    IF Len(msgs) = 0 THEN ""
    ELSE IF Len(msgs) = 1 THEN msgs[1]
    ELSE msgs[1] \o sep \o Join(Tail(msgs), sep)

\* validateConfig: "" stands for a nil error
validateConfig(root) ==
    LET vs == ValidationErrors(root)
    IN  IF Len(vs) = 0 THEN ""
        ELSE "errors: " \o Join([i \in 1..Len(vs) |-> ErrorMessage(vs[i])], ", ")

\* defaults.Set: a field with a default tag that is at its zero value gets it
defaultsSet(root) ==
    [root EXCEPT !.Port = IF root.Port = 0 THEN DefaultPort ELSE root.Port,
                 !.Server = [root.Server EXCEPT
                                !.Host = IF root.Server.Host = "" THEN DefaultHost
                                         ELSE root.Server.Host]]

----------------------------------------------------------------------------
(* Config.Unmarshal, one action per statement *)

\* UnmarshalOrder with the two decode passes exchanged
UnmarshalOrderHookFirst ==
    << "viperUnmarshal", "decodeConfig", "validateConfig", "defaultsSet" >>

\* the calls Unmarshal makes after the promotion, in order
UnmarshalOrder == << "decodeConfig", "viperUnmarshal", "validateConfig", "defaultsSet" >>

\* where Unmarshal goes after a phase: it returns on an error, and after the last
After(phase, failed) ==
    LET i == CHOOSE j \in 1..Len(UnmarshalOrder) : UnmarshalOrder[j] = phase
    IN  IF failed \/ i = Len(UnmarshalOrder) THEN "done" ELSE UnmarshalOrder[i + 1]

Entry(phase, hook, input) == [phase |-> phase, hook |-> hook, input |-> input]

Init ==
    /\ file \in Files
    /\ env \in Envs
    /\ target = ZeroTarget
    /\ pc = "idle"
    /\ allSettings = EmptyMap
    /\ err = "none"
    /\ errText = ""
    /\ log = << >>
    /\ decoded = ZeroTarget
    /\ routed = NotRouted
    /\ calls = 0

\* allSettings := applyGlobalEnvSettings(c.v.AllSettings())
Promote ==
    /\ pc = "idle"
    /\ calls < MaxCalls
    /\ allSettings' = applyGlobalEnvSettings(AllSettings(file, env))
    /\ log' = << Entry("applyGlobalEnvSettings", FALSE, AllSettings(file, env)) >>
    /\ pc' = UnmarshalOrder[1]
    /\ err' = "none"
    /\ errText' = ""
    /\ routed' = NotRouted
    /\ calls' = calls + 1
    /\ UNCHANGED <<file, env, target, decoded>>

\* if err := decodeConfig(allSettings, config); err != nil { return err }
DecodeConfig ==
    /\ pc = "decodeConfig"
    /\ LET r == decodeConfig(allSettings, target)
       IN  /\ target' = r.val
           /\ err' = IF r.err THEN "decode" ELSE err
           /\ pc' = After("decodeConfig", r.err)
    /\ log' = Append(log, Entry("decodeConfig", FALSE, allSettings))
    /\ UNCHANGED <<file, env, allSettings, errText, decoded, routed, calls>>

\* if err := c.v.Unmarshal(config, viper.DecodeHook(...)); err != nil { return err }
ViperUnmarshal ==
    /\ pc = "viperUnmarshal"
    /\ LET r == viperUnmarshal(AllSettings(file, env), target)
       IN  /\ target' = r.val
           /\ routed' = r.routed
           /\ err' = CASE r.out = "panic" -> "panic"
                       [] r.out = "error" -> "decode"
                       [] OTHER -> err
           /\ pc' = After("viperUnmarshal", r.out # "ok")
    /\ log' = Append(log, Entry("viperUnmarshal", TRUE, AllSettings(file, env)))
    /\ UNCHANGED <<file, env, allSettings, errText, decoded, calls>>

\* if err := validateConfig(config); err != nil { return err }
ValidateConfig ==
    /\ pc = "validateConfig"
    /\ LET text == validateConfig(target)
       IN  /\ errText' = text
           /\ err' = IF text # "" THEN "validation" ELSE err
           /\ pc' = After("validateConfig", text # "")
    /\ log' = Append(log, Entry("validateConfig", FALSE, EmptyMap))
    /\ UNCHANGED <<file, env, target, allSettings, decoded, routed, calls>>

\* return defaults.Set(config)
DefaultsSet ==
    /\ pc = "defaultsSet"
    /\ decoded' = target
    /\ target' = defaultsSet(target)
    /\ pc' = After("defaultsSet", FALSE)
    /\ log' = Append(log, Entry("defaultsSet", FALSE, EmptyMap))
    /\ UNCHANGED <<file, env, allSettings, err, errText, routed, calls>>

\* the caller unmarshals into the same structure again: with the same Config,
\* or with a Config built by New where no settings file is found
Reuse ==
    /\ pc = "done"
    /\ err # "panic"
    /\ calls < MaxCalls
    /\ pc' = "idle"
    /\ file' \in {file, NoFile}
    /\ UNCHANGED <<env, target, allSettings, err, errText, log, decoded, routed, calls>>

Next ==
    \/ Promote
    \/ DecodeConfig
    \/ ViperUnmarshal
    \/ ValidateConfig
    \/ DefaultsSet
    \/ Reuse

Spec == Init /\ [][Next]_vars

----------------------------------------------------------------------------
(* Properties *)

\* the settings snapshot of the call in progress (file and env are fixed
\* from Promote until the call is over)
Raw == AllSettings(file, env)

InCall == pc # "idle"

Globals(s) == { g \in DOMAIN s : ~IsMap(s[g]) }

LastKey(p) == p[Len(p)]

\* no key of the file, at any level, has one of these names
Unfed(keys) == \A p \in DOMAIN file : LastKey(p) \notin keys

RanLast(phase) == Len(log) > 0 /\ log[Len(log)].phase = phase

Ran(phase) == \E i \in 1..Len(log) : log[i].phase = phase

\* C1: the promoted mapping has the top-level keys of the settings, every
\* top-level scalar unchanged, and every section holding its own entries
\* unchanged (its nested mappings included) plus each global it did not define.
C1_GlobalPromotion ==
    InCall =>
      /\ DOMAIN allSettings = DOMAIN Raw
      /\ \A key \in DOMAIN Raw :
            IF ~IsMap(Raw[key]) THEN allSettings[key] = Raw[key]
            ELSE /\ IsMap(allSettings[key])
                 /\ DOMAIN allSettings[key].m = DOMAIN Raw[key].m \cup Globals(Raw)
                 /\ \A own \in DOMAIN Raw[key].m :
                       allSettings[key].m[own] = Raw[key].m[own]
                 /\ \A g \in Globals(Raw) \ DOMAIN Raw[key].m :
                       allSettings[key].m[g] = Raw[g]

\* a section that received one global and kept its own value against another
C1_Witness ==
    /\ InCall
    /\ \E key \in DOMAIN Raw :
          /\ IsMap(Raw[key])
          /\ \E g \in Globals(Raw) : g \notin DOMAIN Raw[key].m
          /\ \E g \in Globals(Raw) :
                /\ g \in DOMAIN Raw[key].m
                /\ Raw[key].m[g] # Raw[g]
                /\ allSettings[key].m[g] = Raw[key].m[g]

\* C6: promoting the promoted mapping again changes nothing.
C6_Idempotent == InCall => applyGlobalEnvSettings(allSettings) = allSettings

\* a promotion that injected something, into a section with a nested mapping
C6_Witness ==
    /\ InCall
    /\ allSettings # Raw
    /\ \E key \in DOMAIN Raw :
          /\ IsMap(Raw[key])
          /\ \E own \in DOMAIN Raw[key].m : IsMap(Raw[key].m[own])
          /\ DOMAIN allSettings[key].m # DOMAIN Raw[key].m

\* C5 as amended: right after validateConfig the error text is "" when no
\* required field is at its zero value, and otherwise "errors: " followed by
\* one "validation error: field '<name>' is <rule>" per violated field, all of
\* them, joined by ", "; the call fails exactly when the text is not "".
C5_Aggregated ==
    (InCall /\ RanLast("validateConfig")) =>
      /\ errText =
           CASE target.Name = "" /\ target.Server.Host = "" ->
                  "errors: validation error: field 'Name' is required, validation error: field 'Host' is required"
             [] target.Name = "" /\ target.Server.Host # "" ->
                  "errors: validation error: field 'Name' is required"
             [] target.Name # "" /\ target.Server.Host = "" ->
                  "errors: validation error: field 'Host' is required"
             [] OTHER -> ""
      /\ (err = "validation") <=> (errText # "")

\* two fields violated at once
C5_Witness ==
    /\ InCall
    /\ RanLast("validateConfig")
    /\ err = "validation"
    /\ target.Name = ""
    /\ target.Server.Host = ""

\* C5 as stated: each entry of the text has the form "field '<name>' is <rule>".
C5_Original ==
    (InCall /\ RanLast("validateConfig") /\ err = "validation") =>
      LET vs == << [field |-> "Name", bad |-> target.Name = ""],
                   [field |-> "Host", bad |-> target.Server.Host = ""] >>
          bad == SelectSeq(vs, LAMBDA v : v.bad)
          entries == [i \in 1..Len(bad) |-> "field '" \o bad[i].field \o "' is required"]
      IN  \E sp \in {"", " "}, sep \in {", ", ",", "; ", " ", "\n"} :
             errText = "errors:" \o sp \o Join(entries, sep)


\* C7 as amended: a call runs promotion, then the generic decode of the
\* promoted mapping (decodeConfig, no matcher), then viper's decode with the
\* section matcher over a fresh mapping that holds no promoted key, then
\* validation, then the defaults; each phase starts only after the one before
\* succeeded, and the first that fails ends the call with no later phase run.
C7_PhaseOrder ==
    LET order == << "applyGlobalEnvSettings", "decodeConfig", "viperUnmarshal",
                    "validateConfig", "defaultsSet" >>
    IN  /\ Len(log) <= 5
        /\ \A i \in 1..Len(log) : log[i].phase = order[i]
        /\ Len(log) >= 2 =>
              /\ ~log[2].hook
              /\ log[2].input = applyGlobalEnvSettings(log[1].input)
        /\ Len(log) >= 3 =>
              /\ log[3].hook
              /\ log[3].input = log[1].input
        /\ err # "none" => pc \in {"done", "idle"}
        /\ (pc = "done" /\ err = "none") => Len(log) = 5
        /\ (pc = "done" /\ err = "decode") => Len(log) \in {2, 3}
        /\ (pc = "done" /\ err = "panic") => Len(log) = 3
        /\ (pc = "done" /\ err = "validation") => Len(log) = 4
        /\ (InCall /\ pc # "done") => (err = "none" /\ pc = order[Len(log) + 1])

\* a call that ran all five phases, the two decodes over different mappings
C7_Witness ==
    /\ pc = "done"
    /\ err = "none"
    /\ Len(log) = 5
    /\ log[2].input # log[3].input

\* C7 as stated: the pass with the section matcher comes second, the generic
\* pass over the promoted mapping third.
C7_Original ==
    /\ Len(log) >= 2 => (log[2].hook /\ log[2].phase = "viperUnmarshal")
    /\ Len(log) >= 3 =>
          /\ ~log[3].hook
          /\ log[3].input = applyGlobalEnvSettings(log[1].input)
    /\ err # "none" => pc \in {"done", "idle"}

\* C8 as stated: a matcher that is not given a section (the lower-cased type
\* name is absent from the mapping, or holds something that is no mapping)
\* answers "absent" without error, and the structure is populated from the
\* top-level keys.
C8_Original ==
    (InCall /\ Ran("viperUnmarshal")
       /\ ("appconfig" \notin DOMAIN Raw \/ ~IsMap(Raw["appconfig"]))) =>
      /\ err # "panic"
      /\ (/\ RanLast("viperUnmarshal")
          /\ ~routed.on
          /\ "port" \in DOMAIN Raw
          /\ ParseInt(Raw["port"].v).ok) => target.Port = ParseInt(Raw["port"].v).val

\* C9 as stated: the recursive decode the matcher starts for the Server field
\* writes into that field only; the top-level fields keep their values.
C9_Original ==
    routed.on =>
      /\ routed.after.Name = routed.before.Name
      /\ routed.after.Port = routed.before.Port

\* C10 as stated: after a successful call, a field that no settings key of
\* that call feeds holds its zero value or its default.
C10_Original ==
    (pc = "done" /\ err = "none") =>
      /\ Unfed({"app_name", "name"}) => target.Name = ""
      /\ Unfed({"port"}) => target.Port \in {0, DefaultPort}
      /\ Unfed({"host"}) => target.Server.Host \in {"", DefaultHost}
      /\ Unfed({"server_port", "port"}) => target.Server.Port = 0

\* C3 as stated: Host is required and has a default; when no source supplies
\* it and the decode passes succeed, the call fails in validation, Host is
\* not given its default and defaults.Set is not reached.
C3_Original ==
    (pc = "done" /\ Unfed({"host"}) /\ err \notin {"decode", "panic"}) =>
      /\ err = "validation"
      /\ target.Server.Host # DefaultHost
      /\ ~Ran("defaultsSet")

\* the values of the Server section that feed a field of kind int / str
SectionInts(keys) ==
    { ParseInt(Raw["server"].m[key].v).val :
        key \in { x \in keys \cap DOMAIN Raw["server"].m : ~IsMap(Raw["server"].m[x]) } }

SectionStrs(keys) ==
    { Raw["server"].m[key].v :
        key \in { x \in keys \cap DOMAIN Raw["server"].m : ~IsMap(Raw["server"].m[x]) } }

\* C2 as stated: after a successful call with a server section, a field of
\* Server holds the section's value when the section defines a key feeding
\* it, whatever the globals, and otherwise the global of its key when one exists.
C2_Original ==
    (pc = "done" /\ err = "none" /\ "server" \in DOMAIN Raw) =>
      /\ SectionStrs({"host"}) # {} => decoded.Server.Host \in SectionStrs({"host"})
      /\ (SectionStrs({"host"}) = {} /\ "host" \in Globals(Raw)) =>
            decoded.Server.Host = Raw["host"].v
      /\ SectionInts({"server_port", "port"}) # {} =>
            decoded.Server.Port \in SectionInts({"server_port", "port"})
      /\ (SectionInts({"server_port", "port"}) = {} /\ "server_port" \in Globals(Raw)) =>
            decoded.Server.Port = ParseInt(Raw["server_port"].v).val

\* the effective text of a key of the file: the environment over the file
Effective(p) == IF p \in DOMAIN env THEN env[p] ELSE file[p]

RECURSIVE Lookup(_, _)
Lookup(m, p) == IF Len(p) = 1 THEN m[p[1]].v ELSE Lookup(m[p[1]].m, Tail(p))

\* no section is routed to the root structure
NoRouting == \A p \in DOMAIN file : Len(p) <= 2 /\ p[1] # "appconfig"

====
